---- MODULE Spec2Model ----
(***************************************************************************)
(* RateLimiter of dev/install/sct_changelog.py.                            *)
(*                                                                         *)
(* A limiter wraps an operation `get` and keeps a deque of the timestamps  *)
(* of its last calls.  RateLimiter.get either admits a call at once, or    *)
(* pops the oldest timestamp and sleeps until that timestamp is `period`   *)
(* old, then records the time and invokes the wrapped operation.           *)
(*                                                                         *)
(* Time is an integer clock per limiter run: it advances by the caller's   *)
(* own delay between calls (Tick) and by time.sleep (SleepReturn), which   *)
(* lasts exactly the requested delay; it never goes back.                  *)
(***************************************************************************)
EXTENDS Integers, Sequences, FiniteSets, TLC

\* ------------------------------------------------------------- bounds
MaxCount == 2
MaxPeriod == 3
MaxTime == 2
MaxCalls == 4
PairMaxTime == 2
PairMaxCalls == 2

\* The limiter the script installs: RateLimiter(requests.get, 3, 10).
RefCount == 3
RefPeriod == 10

\* Arguments the script passes to requests.get, and what the wrapped
\* operation may do with a call: return a response or raise.
Args == {"milestones", "releases"}
PairArgs == {"milestones"}
Returned == [kind |-> "return", val |-> "response"]
Raised == [kind |-> "raise", val |-> "ConnectionError"]
Swallowed == [kind |-> "return", val |-> "None"]
Outcomes == {Returned, Raised}
PairOutcomes == {Returned}

Configs == ((1..MaxCount) \X (1..MaxPeriod)) \cup {<<RefCount, RefPeriod>>}
PairConfigs == (1..MaxCount) \X (1..MaxPeriod)

NoRecord == -1
NoFrame == [args |-> "none", now |-> NoRecord, r |-> NoRecord, dt |-> 0]

VARIABLES
    limiters,   \* the RateLimiter instances of the run
    count,      \* self._count of each instance
    period,     \* self._period of each instance
    requests,   \* self._requests of each instance: deque of timestamps, oldest first
    clock,      \* time.time() of each instance's run
    pc,         \* "idle": no call in progress; "sleeping": inside time.sleep(dt)
    frame,      \* locals of the call suspended in time.sleep: args, now, r, dt
    hist,       \* per get call, in call order: what the call saw on entry
    admitted,   \* per admitted call: the timestamp recorded for it
    invoked,    \* the arguments the wrapped operation received, in order
    opResults,  \* the outcome of each invocation of the wrapped operation
    results     \* the outcome of each completed get, as its caller saw it

vars == <<limiters, count, period, requests, clock, pc, frame, hist,
          admitted, invoked, opResults, results>>

Solo == Cardinality(limiters) = 1
CallBound == IF Solo THEN MaxCalls ELSE PairMaxCalls
TimeBound == IF Solo THEN MaxTime ELSE PairMaxTime
CallArgs == IF Solo THEN Args ELSE PairArgs
CallOutcomes == IF Solo THEN Outcomes ELSE PairOutcomes

\* ------------------------------------------------------------ helpers
Front(q) == SubSeq(q, 1, Len(q) - 1)

\* ------------------------------------------------- RateLimiter.get parts

\* len(self._requests) < self._count
FirstCallOnly(q, c) == Len(q) = 0
UnderQuota(q, c) == Len(q) < c

\* r = self._requests.popleft()
PopRight(q) == [r |-> q[Len(q)], rest |-> Front(q)]
PeekLeft(q) == [r |-> Head(q), rest |-> q]
PopLeft(q) == [r |-> Head(q), rest |-> Tail(q)]

\* now < r + self._period
MustWaitShort(now, r, p) == now < r + p - 1
MustWait(now, r, p) == now < r + p

\* dt = r + self._period - now
DelayFullPeriod(now, r, p) == p
DelayFromZero(now, r, p) == r + p
Delay(now, r, p) == r + p - now

\* self._requests.append(time.time()), then the wrapped call with outcome o:
\* the record is appended before the call and nothing removes it afterwards.
RecordRolledBack(q, t, o) == IF o.kind = "raise" THEN q ELSE Append(q, t)
Record(q, t, o) == Append(q, t)

\* return self._get(*args, **kw)
ReturnSwallow(o) == IF o.kind = "raise" THEN Swallowed ELSE o
Return(o) == o
Forward(args) == args

\* self._requests is an attribute of the instance (set in __init__)
StoreShared(reqs, i, q) == [j \in DOMAIN reqs |-> q]
Store(reqs, i, q) == [reqs EXCEPT ![i] = q]

\* ------------------------------------------------------------- Init
InitWith(ids, cfgs) ==
    /\ limiters = ids
    /\ \E cfg \in cfgs :
          /\ count = [i \in ids |-> cfg[1]]
          /\ period = [i \in ids |-> cfg[2]]
    /\ requests = [i \in ids |-> <<>>]
    /\ clock = [i \in ids |-> 0]
    /\ pc = [i \in ids |-> "idle"]
    /\ frame = [i \in ids |-> NoFrame]
    /\ hist = [i \in ids |-> <<>>]
    /\ admitted = [i \in ids |-> <<>>]
    /\ invoked = [i \in ids |-> <<>>]
    /\ opResults = [i \in ids |-> <<>>]
    /\ results = [i \in ids |-> <<>>]

Init == InitWith({1}, Configs)
PairInit == InitWith({1, 2}, PairConfigs)

\* ------------------------------------------------------------ actions

\* The caller lets one time unit pass before its next call.
Tick(i) ==
    /\ pc[i] = "idle"
    /\ Len(hist[i]) < CallBound
    /\ clock[i] < TimeBound
    /\ clock' = [clock EXCEPT ![i] = @ + 1]
    /\ UNCHANGED <<limiters, count, period, requests, pc, frame, hist,
                   admitted, invoked, opResults, results>>

\* Lines 32-33 and 42-43: record the time t on top of q, call the wrapped
\* operation, hand its outcome to the caller.
Admit(i, q, args, t) ==
    \E o \in CallOutcomes :
        /\ requests' = Store(requests, i, Record(q, t, o))
        /\ admitted' = [admitted EXCEPT ![i] = Append(@, t)]
        /\ invoked' = [invoked EXCEPT ![i] = Append(@, Forward(args))]
        /\ opResults' = [opResults EXCEPT ![i] = Append(@, o)]
        /\ results' = [results EXCEPT ![i] = Append(@, Return(o))]

Seen(i, args, oldest, rest, slept, dt) ==
    [args |-> args, at |-> clock[i], queue |-> requests[i], oldest |-> oldest,
     retired |-> Len(requests[i]) - Len(rest), slept |-> slept, delay |-> dt]

\* RateLimiter.get up to its return or up to time.sleep.
Get(i, args) ==
    /\ pc[i] = "idle"
    /\ Len(hist[i]) < CallBound
    /\ IF UnderQuota(requests[i], count[i])
       THEN /\ Admit(i, requests[i], args, clock[i])
            /\ hist' = [hist EXCEPT ![i] =
                          Append(@, Seen(i, args, NoRecord, requests[i], FALSE, 0))]
            /\ UNCHANGED <<clock, pc, frame>>
       ELSE LET now == clock[i]
                p == PopLeft(requests[i])
            IN  IF MustWait(now, p.r, period[i])
                THEN LET dt == Delay(now, p.r, period[i])
                     IN /\ requests' = Store(requests, i, p.rest)
                        /\ pc' = [pc EXCEPT ![i] = "sleeping"]
                        /\ frame' = [frame EXCEPT ![i] =
                              [args |-> args, now |-> now, r |-> p.r, dt |-> dt]]
                        /\ hist' = [hist EXCEPT ![i] =
                              Append(@, Seen(i, args, p.r, p.rest, TRUE, dt))]
                        /\ UNCHANGED <<clock, admitted, invoked, opResults, results>>
                ELSE /\ Admit(i, p.rest, args, clock[i])
                     /\ hist' = [hist EXCEPT ![i] =
                              Append(@, Seen(i, args, p.r, p.rest, FALSE, 0))]
                     /\ UNCHANGED <<clock, pc, frame>>
    /\ UNCHANGED <<limiters, count, period>>

\* time.sleep(dt) returns after dt; the call records the time and goes on.
SleepDropsCall(i) ==
    /\ pc[i] = "sleeping"
    /\ clock' = [clock EXCEPT ![i] = @ + frame[i].dt]
    /\ pc' = [pc EXCEPT ![i] = "idle"]
    /\ frame' = [frame EXCEPT ![i] = NoFrame]
    /\ UNCHANGED <<limiters, count, period, requests, hist, admitted, invoked,
                   opResults, results>>
SleepReturn(i) ==
    /\ pc[i] = "sleeping"
    /\ clock' = [clock EXCEPT ![i] = @ + frame[i].dt]
    /\ Admit(i, requests[i], frame[i].args, clock[i] + frame[i].dt)
    /\ pc' = [pc EXCEPT ![i] = "idle"]
    /\ frame' = [frame EXCEPT ![i] = NoFrame]
    /\ UNCHANGED <<limiters, count, period, hist>>

Next ==
    \/ \E i \in limiters : Tick(i)
    \/ \E i \in limiters : \E args \in CallArgs : Get(i, args)
    \/ \E i \in limiters : SleepReturn(i)

Spec == Init /\ [][Next]_vars
FairSpec == Init /\ [][Next]_vars /\ WF_vars(\E i \in limiters : SleepReturn(i))
PairSpec == PairInit /\ [][Next]_vars

\* ------------------------------------------------------------- claims
Min(a, b) == IF a <= b THEN a ELSE b
LastN(q, n) == SubSeq(q, Len(q) - n + 1, Len(q))
Sorted(q) == \A a, b \in DOMAIN q : a <= b => q[a] <= q[b]
Idle(i) == pc[i] = "idle"

\* The admitted calls of limiter i whose recorded timestamp lies in the
\* window [t, t + period) of length period.
InWindow(i, t) ==
    {k \in DOMAIN admitted[i] :
        t <= admitted[i][k] /\ admitted[i][k] < t + period[i]}

\* C1: admission bound. After every admission, no window of length period
\* (taken half-open, [t, t + period)) holds more than count admitted calls,
\* a call's admission time being the timestamp recorded for it.
AdmissionBound ==
    \A i \in limiters : \A t \in 0..clock[i] :
        Cardinality(InWindow(i, t)) <= count[i]

\* A delayed call has been admitted and some window holds exactly count calls.
AdmissionBoundWitness ==
    \E i \in limiters : \E k \in DOMAIN admitted[i] : \E t \in 0..clock[i] :
        /\ hist[i][k].slept
        /\ Len(admitted[i]) > count[i]
        /\ k \in InWindow(i, t)
        /\ Cardinality(InWindow(i, t)) = count[i]

\* C2: pass-through fidelity. Every completed get has invoked the wrapped
\* operation exactly once, with the caller's arguments, in call order, and
\* the caller got the wrapped operation's outcome (value or error) unchanged.
PassThrough ==
    \A i \in limiters :
        LET n == Len(admitted[i]) IN
        /\ n = Len(hist[i]) - (IF Idle(i) THEN 0 ELSE 1)
        /\ Len(invoked[i]) = n
        /\ Len(opResults[i]) = n
        /\ Len(results[i]) = n
        /\ \A k \in 1..n :
              /\ invoked[i][k] = hist[i][k].args
              /\ results[i][k] = opResults[i][k]

\* A delayed call whose wrapped operation raised, after a call with other
\* arguments that returned.
PassThroughWitness ==
    \E i \in limiters : \E j, k \in DOMAIN results[i] :
        /\ j < k
        /\ hist[i][k].slept
        /\ results[i][k] = Raised
        /\ results[i][j] = Returned
        /\ invoked[i][j] # invoked[i][k]

\* C3: delay correctness. A call that finds count records and arrives before
\* oldest + period sleeps exactly oldest + period - now and its record carries
\* the time after the delay; one that arrives at or after oldest + period is
\* not delayed. With count = 3, period = 10 and calls at 0, 0, 0, 1 the
\* delays are 0, 0, 0, 9 and the fourth call is admitted at 10.
DelayCorrect ==
    \A i \in limiters :
        /\ \A k \in DOMAIN hist[i] :
              LET c == hist[i][k] IN
              Len(c.queue) = count[i] =>
                 IF c.at < c.queue[1] + period[i]
                 THEN /\ c.slept
                      /\ c.delay = c.queue[1] + period[i] - c.at
                      /\ k <= Len(admitted[i]) =>
                            /\ admitted[i][k] = c.at + c.delay
                            /\ admitted[i][k] = c.queue[1] + period[i]
                 ELSE /\ ~c.slept
                      /\ c.delay = 0
                      /\ k <= Len(admitted[i])
                      /\ admitted[i][k] = c.at
        /\ (Idle(i) /\ Len(admitted[i]) > 0) =>
              requests[i][Len(requests[i])] = admitted[i][Len(admitted[i])]
        /\ ( /\ count[i] = RefCount
             /\ period[i] = RefPeriod
             /\ Len(admitted[i]) >= 4
             /\ hist[i][1].at = 0 /\ hist[i][2].at = 0
             /\ hist[i][3].at = 0 /\ hist[i][4].at = 1 )
           => /\ \A k \in 1..3 : hist[i][k].delay = 0 /\ admitted[i][k] = 0
              /\ hist[i][4].delay = 9
              /\ admitted[i][4] = 10

\* The installed limiter after calls at 0, 0, 0, 1: the fourth was admitted.
DelayCorrectWitness ==
    \E i \in limiters :
        /\ count[i] = RefCount
        /\ period[i] = RefPeriod
        /\ Len(admitted[i]) = 4
        /\ hist[i][3].at = 0
        /\ hist[i][4].at = 1
        /\ hist[i][4].slept
        /\ clock[i] = 10

\* C4: no unnecessary delay. Each of the first count calls of a limiter is
\* admitted on arrival: no sleep, nothing retired, its timestamp recorded at
\* its arrival time and the wrapped operation invoked.
NoUnnecessaryDelay ==
    \A i \in limiters : \A k \in DOMAIN hist[i] :
        k <= count[i] =>
            /\ ~hist[i][k].slept
            /\ hist[i][k].delay = 0
            /\ hist[i][k].retired = 0
            /\ k <= Len(admitted[i])
            /\ admitted[i][k] = hist[i][k].at
            /\ k <= Len(invoked[i])

\* count >= 2 calls issued back to back, all admitted at the same instant.
NoUnnecessaryDelayWitness ==
    \E i \in limiters :
        /\ count[i] >= 2
        /\ Len(admitted[i]) = count[i]
        /\ hist[i][1].at > 0
        /\ hist[i][count[i]].at = hist[i][1].at

\* C5: FIFO retirement. The tracked records are the latest admissions in
\* admission order (oldest first, non-decreasing, newest last), and a call
\* past the first count decides on, and removes, the earliest of them: the
\* record of the call count places before it.
FifoRetirement ==
    \A i \in limiters :
        /\ Sorted(requests[i])
        /\ Sorted(admitted[i])
        /\ Len(requests[i]) <= Len(admitted[i])
        /\ requests[i] = LastN(admitted[i], Len(requests[i]))
        /\ \A k \in DOMAIN hist[i] :
              LET c == hist[i][k] IN
              k > count[i] =>
                 /\ c.oldest = c.queue[1]
                 /\ c.oldest = admitted[i][k - count[i]]
                 /\ \A j \in DOMAIN c.queue : c.oldest <= c.queue[j]

\* A call past the first count found records of different ages and was admitted.
FifoRetirementWitness ==
    \E i \in limiters : \E k \in DOMAIN admitted[i] :
        /\ k > count[i]
        /\ hist[i][k].queue[1] < hist[i][k].queue[count[i]]
        /\ requests[i][1] < requests[i][Len(requests[i])]

\* C6: bounded record sequence. At most count records are tracked, min(n,
\* count) after n completed calls; a call that finds fewer than count records
\* retires none, a call that finds count records retires exactly the oldest,
\* whether or not it is then delayed, and adds one.
BoundedRecords ==
    \A i \in limiters :
        /\ Len(requests[i]) <= count[i]
        /\ Idle(i) => Len(requests[i]) = Min(Len(hist[i]), count[i])
        /\ ~Idle(i) => Len(requests[i]) = count[i] - 1
        /\ \A k \in DOMAIN hist[i] :
              LET c == hist[i][k] IN
              /\ Len(c.queue) = Min(k - 1, count[i])
              /\ IF Len(c.queue) < count[i]
                 THEN c.retired = 0 /\ c.oldest = NoRecord
                 ELSE c.retired = 1 /\ c.oldest = c.queue[1]

\* A call found count records, retired one and was admitted without delay.
BoundedRecordsWitness ==
    \E i \in limiters : \E k \in DOMAIN admitted[i] :
        /\ Len(hist[i][k].queue) = count[i]
        /\ ~hist[i][k].slept
        /\ hist[i][k].retired = 1
        /\ Len(requests[i]) = count[i]

SameSchedule ==
    \A i, j \in limiters : \A k \in DOMAIN hist[i] \cap DOMAIN hist[j] :
        ( /\ count[i] = count[j]
          /\ period[i] = period[j]
          /\ \A m \in 1..k : hist[i][m].at = hist[j][m].at )
        => /\ hist[i][k].delay = hist[j][k].delay
           /\ hist[i][k].slept = hist[j][k].slept

Independent ==
    \A i \in limiters :
        (Idle(i) /\ pc'[i] = "idle" /\ hist'[i] = hist[i])
        => /\ requests'[i] = requests[i]
           /\ admitted'[i] = admitted[i]

\* C7: determinism and independence. Two limiters with the same count and
\* period whose calls were issued at the same times imposed the same delay
\* on their k-th calls, and a step in which a limiter neither runs nor
\* starts a call leaves its records unchanged.
InstancesAgree == []SameSchedule /\ [][Independent]_vars

\* Both limiters delayed their second call, issued at the same times.
InstancesAgreeWitness ==
    \E i, j \in limiters : \E k \in DOMAIN admitted[i] \cap DOMAIN admitted[j] :
        /\ i # j
        /\ \A m \in 1..k : hist[i][m].at = hist[j][m].at
        /\ hist[i][k].slept
        /\ hist[j][k].slept
        /\ hist[i][k].at > 0

Suspended == \E i \in limiters : ~Idle(i)
AllProceeded ==
    \A i \in limiters :
        /\ Idle(i)
        /\ Len(admitted[i]) = Len(hist[i])
        /\ Len(invoked[i]) = Len(hist[i])
NoneRefused ==
    \A i \in limiters :
        /\ Idle(i) => Len(admitted[i]) = Len(hist[i])
        /\ \A k \in DOMAIN admitted[i] :
              admitted[i][k] = hist[i][k].at + hist[i][k].delay

\* C8: every call proceeds. A call suspended in its delay is eventually
\* admitted and invokes the wrapped operation; no completed call was refused,
\* and each was admitted after exactly its one delay (possibly zero).
EveryCallProceeds == []NoneRefused /\ (Suspended ~> AllProceeded)

\* A delayed call has completed and invoked the wrapped operation.
EveryCallProceedsWitness ==
    \E i \in limiters : \E k \in DOMAIN invoked[i] :
        /\ hist[i][k].slept
        /\ Idle(i)
        /\ k = Len(hist[i])

\* C9: a failed call consumes quota. After a get whose wrapped operation
\* raised, the tracked records are those a successful get would have left
\* (the call's timestamp is the newest record), and the call count places
\* later retires that record and is timed against it.
FailedCallCounts ==
    \A i \in limiters : \A k \in DOMAIN opResults[i] :
        opResults[i][k].kind = "raise" =>
            /\ (Idle(i) /\ k = Len(hist[i])) =>
                  /\ requests[i] = LastN(admitted[i], Min(k, count[i]))
                  /\ requests[i][Len(requests[i])] = admitted[i][k]
            /\ \A m \in DOMAIN hist[i] :
                  /\ (k < m /\ m <= k + count[i]) =>
                        hist[i][m].queue[Len(hist[i][m].queue) - (m - k) + 1]
                            = admitted[i][k]
                  /\ m = k + count[i] =>
                        /\ hist[i][m].oldest = admitted[i][k]
                        /\ hist[i][m].slept
                              = (hist[i][m].at < admitted[i][k] + period[i])

\* A call failed and the call count places later was delayed by its record.
FailedCallCountsWitness ==
    \E i \in limiters : \E k \in DOMAIN opResults[i] :
        /\ opResults[i][k].kind = "raise"
        /\ k + count[i] <= Len(admitted[i])
        /\ hist[i][k + count[i]].slept

\* C10: bounded delay. No tracked record is later than the current time, and
\* every delay imposed is greater than 0 and at most period.
BoundedDelay ==
    \A i \in limiters :
        /\ \A j \in DOMAIN requests[i] : requests[i][j] <= clock[i]
        /\ \A k \in DOMAIN hist[i] :
              IF hist[i][k].slept
              THEN 0 < hist[i][k].delay /\ hist[i][k].delay <= period[i]
              ELSE hist[i][k].delay = 0
        /\ ~Idle(i) =>
              /\ frame[i].dt = hist[i][Len(hist[i])].delay
              /\ frame[i].r <= frame[i].now

\* A call well past the first window slept a whole period.
BoundedDelayWitness ==
    \E i \in limiters : \E k \in DOMAIN admitted[i] :
        /\ k >= count[i] + 2
        /\ hist[i][k].slept
        /\ hist[i][k].delay = period[i]
        /\ hist[i][k].at > 0

====
